---------------------------- MODULE Spec2Model ----------------------------
(***************************************************************************)
(* Model of the cleansend telemetry simulator: the vehicle state model     *)
(* (CleanVehicleSimulator.generate_clean_data and the TelemetrySender      *)
(* record builders) and the two pacing/dispatch loops                      *)
(* (TelemetrySender.run_simulation, CleanVehicleSimulator                  *)
(* .run_clean_simulation).                                                 *)
(*                                                                         *)
(* Number representation.  Python floats are modelled in fixed point:      *)
(* a real x is the integer x * FP.  Times are integer milliseconds.        *)
(* motor_rpm is an int in the source and is an integer here.  odometer     *)
(* and energy_consumed are kept in 1e-6 of the source's unit.  A           *)
(* random.gauss(0, sigma) call is sigma * z for a sample z (a whole number *)
(* of standard deviations) drawn from an explicit finite set; a math.sin   *)
(* value is any s in a finite subset of -FP..FP.                           *)
(*                                                                         *)
(* Specifications.  Spec: both programs from start to exit, on a coarse    *)
(* clock.  SpecVehicle: the vehicle operations in any order.  SpecC9: the  *)
(* 2 s / 10 Hz run on a millisecond clock.  SpecFunctions: one evaluation  *)
(* of a profile, of the fault code logic or of generate_clean_data on      *)
(* arguments at the branch boundaries.  KeyboardInterrupt is modelled      *)
(* where it changes the outcome: before the try statement and inside it;   *)
(* the except and finally blocks run to their end.                         *)
(***************************************************************************)
EXTENDS Integers, Sequences, FiniteSets

\* Fixed-point resolution: the real 1.0.
FP == 1000

\* Milliseconds per second (timestamp_ms = int(current_time * 1000)).
MsPerSec == 1000

\* Latest clock reading (ms after program start) explored by Spec.
MaxClock == 550

\* Number of vehicle operations explored by SpecVehicle.
MaxSteps == 3

---------------------------------------------------------------------------
(* Arithmetic helpers *)

Min(a, b) == IF a <= b THEN a ELSE b

Max(a, b) == IF a >= b THEN a ELSE b

Abs(a) == IF a >= 0 THEN a ELSE 0 - a

\* Python int(): truncation toward zero of a / b (b > 0).
Trunc(a, b) == IF a >= 0 THEN a \div b ELSE 0 - ((0 - a) \div b)

\* random.gauss(0, num/den) for the sample z, in fixed point.
Gauss(z, num, den) == Trunc(z * num * FP, den)

\* max(0.0, min(1.0, x))
Clamp01(x) == Max(0, Min(FP, x))

---------------------------------------------------------------------------
(* Mission profiles: elapsed time t (ms), sine value s (fixed point) *)

ProfileNames == {"idle", "city", "highway", "track_day", "efficiency_test"}

idle_profile(t, s) ==
    [throttle_target |-> 0, base_temp |-> 25 * FP, scenario |-> "Idle"]

\* The throttle of _city_profile.
city_throttle(t, s) ==
    LET cycle_time == t % (60 * MsPerSec) IN
    IF cycle_time < 15 * MsPerSec
      THEN Min((4 * FP) \div 10, Trunc(cycle_time * 4 * FP, 15 * MsPerSec * 10))
    ELSE IF cycle_time < 35 * MsPerSec
      THEN (3 * FP) \div 10 + Trunc(s, 10)
    ELSE IF cycle_time < 45 * MsPerSec
      THEN Max(0, (3 * FP) \div 10
                   - Trunc((cycle_time - 35 * MsPerSec) * 3 * FP, 10 * MsPerSec * 10))
    ELSE 0

city_profile(t, s) ==
    [throttle_target |-> city_throttle(t, s), base_temp |-> 30 * FP,
     scenario |-> "City"]

\* Mutant: the passing band includes its lower end.
highway_throttle_inclusive(t, s) ==
    IF t < 10 * MsPerSec
      THEN (6 * FP) \div 10 + Trunc(t * 2 * FP, 10 * MsPerSec * 10)
    ELSE LET base_throttle == (75 * FP) \div 100
             passing_cycle == (t - 10 * MsPerSec) % (120 * MsPerSec)
         IN IF 40 * MsPerSec <= passing_cycle /\ passing_cycle < 60 * MsPerSec
              THEN base_throttle + (2 * FP) \div 10
              ELSE base_throttle + Trunc(5 * s, 100)

\* The throttle of _highway_profile before its clamp.
highway_throttle(t, s) ==
    IF t < 10 * MsPerSec
      THEN (6 * FP) \div 10 + Trunc(t * 2 * FP, 10 * MsPerSec * 10)
    ELSE LET base_throttle == (75 * FP) \div 100
             passing_cycle == (t - 10 * MsPerSec) % (120 * MsPerSec)
         IN IF 40 * MsPerSec < passing_cycle /\ passing_cycle < 60 * MsPerSec
              THEN base_throttle + (2 * FP) \div 10
              ELSE base_throttle + Trunc(5 * s, 100)

highway_profile(t, s) ==
    [throttle_target |-> Clamp01(highway_throttle(t, s)), base_temp |-> 35 * FP,
     scenario |-> "Highway"]

\* The throttle of _track_profile before its clamp.
track_throttle(t, s) ==
    LET lap_time == t % (180 * MsPerSec) IN
    IF lap_time < 120 * MsPerSec
      THEN (7 * FP) \div 10 + Trunc(3 * Abs(s), 10)
      ELSE (2 * FP) \div 10 + Trunc(s, 10)

track_profile(t, s) ==
    [throttle_target |-> Clamp01(track_throttle(t, s)), base_temp |-> 45 * FP,
     scenario |-> "Track"]

\* Mutant: the sine term with amplitude 1.0.
efficiency_profile_unit_amplitude(t, s) ==
    [throttle_target |-> (15 * FP) \div 100 + s, base_temp |-> 22 * FP,
     scenario |-> "Efficiency"]

efficiency_profile(t, s) ==
    [throttle_target |-> (15 * FP) \div 100 + Trunc(s, 10), base_temp |-> 22 * FP,
     scenario |-> "Efficiency"]

\* Mutant: the default of the lookup is the idle profile.
profile_func_default_idle(mp, t, s) ==
    IF mp = "city" THEN city_profile(t, s)
    ELSE IF mp = "highway" THEN highway_profile(t, s)
    ELSE IF mp = "track_day" THEN track_profile(t, s)
    ELSE IF mp = "efficiency_test" THEN efficiency_profile(t, s)
    ELSE idle_profile(t, s)

\* self.profiles.get(self.mission_profile, self.profiles['city'])(elapsed_time)
profile_func(mp, t, s) ==
    IF mp = "idle" THEN idle_profile(t, s)
    ELSE IF mp = "highway" THEN highway_profile(t, s)
    ELSE IF mp = "track_day" THEN track_profile(t, s)
    ELSE IF mp = "efficiency_test" THEN efficiency_profile(t, s)
    ELSE city_profile(t, s)

---------------------------------------------------------------------------
(* Vehicle state: the attributes set by TelemetrySender.__init__ and      *)
(* CleanVehicleSimulator.__init__                                         *)

InitVehicle ==
    [throttle_position |-> 0, motor_rpm |-> 0, motor_current |-> 0,
     battery_voltage |-> 84 * FP, pack_temperature |-> 25 * FP,
     controller_temp |-> 30 * FP, odometer |-> 0, energy_consumed |-> 0,
     last_update_time |-> 0]

\* Mutant: the blend factor written as 1.5 and the clamp left out.
smooth_throttle_overshoot(tp, target) == tp + Trunc((target - tp) * 15, 10)

\* Lines 149-152: exponential smoothing toward the target, then the clamp.
smooth_throttle(tp, target) ==
    Clamp01(tp + Trunc((target - tp) * 15, 100))

\* Lines 155-156: motor_rpm = int(throttle_position * 4000 + gauss(0, 100)).
clean_motor_rpm(tp, z) == Trunc(tp * 4000 + Gauss(z, 100, 1), FP)

\* Controller-temperature load coefficient selected by the mission profile.
load_coefficient(mp) ==
    IF mp = "track_day" THEN 35 ELSE IF mp = "highway" THEN 25 ELSE 20

\* CleanVehicleSimulator.generate_clean_data: the vehicle state after the
\* advance at elapsed time t; z = <<current, rpm, pack, controller>> samples.
generate_clean_data(v, mp, t, s, z) ==
    LET profile_data == profile_func(mp, t, s)
        accumulate == v.last_update_time > 0
        dt == t - v.last_update_time
        power == Trunc(v.motor_current * Trunc(v.battery_voltage, FP), FP)
        tp == smooth_throttle(v.throttle_position, profile_data.throttle_target)
        cur == tp * 150 + Gauss(z[1], 3, 1)
    IN [v EXCEPT
          !.odometer = IF accumulate THEN @ + Trunc(v.motor_rpm * dt, 120) ELSE @,
          !.energy_consumed =
              IF accumulate THEN @ + Trunc(power * Trunc(dt, 10), 360) ELSE @,
          !.last_update_time = t,
          !.throttle_position = tp,
          !.motor_current = cur,
          !.motor_rpm = clean_motor_rpm(tp, z[2]),
          !.pack_temperature =
              profile_data.base_temp + Trunc(Abs(cur), 10) + Gauss(z[3], 2, 1),
          !.controller_temp =
              profile_data.base_temp + Trunc(Abs(cur) * load_coefficient(mp), 150)
                + Gauss(z[4], 2, 1)]

\* TelemetrySender.generate_apps_data, lines 72-96: the throttle after the
\* elapsed-time band's update and the clamp.  idle is random.random() < 0.05,
\* u is the second random.random() sample (fixed point, 0 <= u < FP).
apps_throttle(tp, t, s, idle, u) ==
    IF t < 5 * MsPerSec THEN Clamp01(0)
    ELSE IF t < 10 * MsPerSec
      THEN Clamp01(tp + Trunc(((3 * FP) \div 10 + Trunc(2 * s, 10) - tp) * 10, 100))
    ELSE IF t < 15 * MsPerSec
      THEN Clamp01(tp + Trunc(((5 * FP) \div 10 + Trunc(3 * s, 10) - tp) * 10, 100))
    ELSE LET target == IF idle THEN 0 ELSE (2 * FP) \div 10 + Trunc(6 * u, 10)
         IN Clamp01(tp + Trunc((target - tp) * 8, 100))

\* TelemetrySender.generate_apps_data: the vehicle state it leaves and the
\* record it returns; z = <<current, rpm>> samples.
generate_apps_data(v, t, s, idle, u, z) ==
    LET tp == apps_throttle(v.throttle_position, t, s, idle, u)
        cur == tp * 150 + Gauss(z[1], 2, 1)
        rpm == Trunc(tp * 4000 + Gauss(z[2], 50, 1), FP)
    IN [veh |-> [v EXCEPT !.throttle_position = tp, !.motor_current = cur,
                          !.motor_rpm = rpm],
        data |-> [kind |-> "APPS", state |-> "APPS_STATE_RUNNING",
                  current_throttle_percentage |-> tp,
                  current_motor_current |-> cur,
                  current_motor_rpm |-> Max(0, rpm)]]

\* for i in range(12): the cells of a segment.
CellsPerSegment == 12

\* for i in range(5): the segments of the pack.
BmsSegments == 5

\* Mutant: the cell voltage is appended without its clamp.
cell_voltage_unclamped(s, z) ==
    (37 * FP) \div 10 + Trunc(3 * s, 10) + Gauss(z, 2, 100)

\* Lines 114-116: a cell voltage, for the value s of its sine term and its
\* gauss sample z.
cell_voltage(s, z) ==
    Max(3 * FP, Min((43 * FP) \div 10,
                    (37 * FP) \div 10 + Trunc(3 * s, 10) + Gauss(z, 2, 100)))

\* TelemetrySender.generate_bms_segment: the cell voltages of a segment;
\* cells[i] = [s, z] holds the sine value and the gauss sample of cell i.
\* (The thermistor temperatures and the rail voltage carry no bound.)
generate_bms_segment(cells) ==
    [connected_cell_tap_bitset |-> 4095,
     degraded_cell_tap_bitset |-> 0,
     cell_voltages |-> [i \in 1..CellsPerSegment |-> cell_voltage(cells[i].s, cells[i].z)]]

\* Line 141: the vehicle as generate_bms_data leaves it; z1 is the gauss
\* sample of the pack temperature.
bms_vehicle(v, t, s, z1) ==
    [v EXCEPT !.pack_temperature = 25 * FP + 10 * s + Gauss(z1, 1, 1)]

\* TelemetrySender.generate_bms_data: z = <<pack, positive, negative>>
\* samples; every segment draws its cells from cells.
generate_bms_data(v, t, s, z, cells) ==
    [veh |-> bms_vehicle(v, t, s, z[1]),
     data |-> [kind |-> "BMS",
               shutdown_activated |-> FALSE,
               positive_current |-> Max(0, v.motor_current + Gauss(z[2], 1, 1)),
               negative_current |-> Max(0, 0 - Min(0, Gauss(z[3], 1, 2))),
               segments |-> [k \in 1..BmsSegments |-> generate_bms_segment(cells)]]]

\* Mutant: the undervoltage rule tested before the two temperature rules.
fault_code_voltage_first(controller_temp, motor_temp, input_voltage, motor_current) ==
    IF input_voltage < 60 * FP THEN "UNDERVOLTAGE"
    ELSE IF controller_temp > 90 * FP THEN "CONTROLLER_OVERTEMPERATURE"
    ELSE IF motor_temp > 110 * FP THEN "MOTOR_OVERTEMPERATURE"
    ELSE IF input_voltage > 95 * FP THEN "OVERVOLTAGE"
    ELSE IF Abs(motor_current) > 160 * FP THEN "OVERCURRENT"
    ELSE "NO_FAULTS"

\* Lines 197-208: the fault code logic of generate_inverter_data.
fault_code(controller_temp, motor_temp, input_voltage, motor_current) ==
    IF controller_temp > 90 * FP THEN "CONTROLLER_OVERTEMPERATURE"
    ELSE IF motor_temp > 110 * FP THEN "MOTOR_OVERTEMPERATURE"
    ELSE IF input_voltage < 60 * FP THEN "UNDERVOLTAGE"
    ELSE IF input_voltage > 95 * FP THEN "OVERVOLTAGE"
    ELSE IF Abs(motor_current) > 160 * FP THEN "OVERCURRENT"
    ELSE "NO_FAULTS"

\* Mutant: the current limit flag set from 180 A on, above the fault threshold.
limit_states_late_current_flag(v, controller_temp, motor_temp, input_voltage) ==
    [capacitor_temperature |-> controller_temp > 70 * FP,
     dc_current_limit |-> Abs(v.motor_current) > 180 * FP,
     drive_enable_limit |-> FALSE,
     igbt_acceleration_limit |-> FALSE,
     igbt_temperature_limit |-> controller_temp > 80 * FP,
     input_voltage_limit |-> input_voltage < 70 * FP \/ input_voltage > 90 * FP,
     motor_acceleration_temperature_limit |-> motor_temp > 85 * FP,
     motor_temperature_limit |-> motor_temp > 100 * FP,
     rpm_minimum_limit |-> v.motor_rpm < 100 /\ v.throttle_position > FP \div 10,
     rpm_maximum_limit |-> v.motor_rpm > 3800,
     power_limit |-> Trunc(v.motor_current, 10) * Trunc(input_voltage, 10)
                       > 50000 * (FP \div 10) * (FP \div 10)]

\* Lines 183-195: InverterLimitStates.
limit_states(v, controller_temp, motor_temp, input_voltage) ==
    [capacitor_temperature |-> controller_temp > 70 * FP,
     dc_current_limit |-> Abs(v.motor_current) > 140 * FP,
     drive_enable_limit |-> FALSE,
     igbt_acceleration_limit |-> FALSE,
     igbt_temperature_limit |-> controller_temp > 80 * FP,
     input_voltage_limit |-> input_voltage < 70 * FP \/ input_voltage > 90 * FP,
     motor_acceleration_temperature_limit |-> motor_temp > 85 * FP,
     motor_temperature_limit |-> motor_temp > 100 * FP,
     rpm_minimum_limit |-> v.motor_rpm < 100 /\ v.throttle_position > FP \div 10,
     rpm_maximum_limit |-> v.motor_rpm > 3800,
     power_limit |-> Trunc(v.motor_current, 10) * Trunc(input_voltage, 10)
                       > 50000 * (FP \div 10) * (FP \div 10)]

\* TelemetrySender.generate_inverter_data:
\* z = <<controller, motor, erpm, duty, voltage, ac, dc>> samples.
generate_inverter_data(v, t, z) ==
    LET ctrl == 25 * FP + Trunc(Abs(v.motor_current) * 25, 150) + Gauss(z[1], 2, 1)
        motor_temp == Trunc(ctrl * 8, 10) + Gauss(z[2], 3, 2)
        erpm == Trunc(v.motor_rpm * 7 * FP + Gauss(z[3], 50, 1), FP)
        duty_cycle == Clamp01(Trunc(v.throttle_position * 9, 10) + Gauss(z[4], 2, 100))
        input_voltage == v.battery_voltage + Gauss(z[5], 1, 1)
        code == fault_code(ctrl, motor_temp, input_voltage, v.motor_current)
    IN [veh |-> [v EXCEPT !.controller_temp = ctrl],
        data |-> [kind |-> "INVERTER",
                  fault_code |-> code,
                  erpm |-> Max(0, erpm),
                  duty_cycle |-> duty_cycle,
                  input_dc_voltage |-> input_voltage,
                  ac_motor_current |-> Abs(v.motor_current) + Gauss(z[6], 1, 1),
                  dc_battery_current |-> v.motor_current + Gauss(z[7], 1, 2),
                  controller_temperature |-> ctrl,
                  motor_temperature |-> motor_temp,
                  drive_enabled |-> code = "NO_FAULTS",
                  limit_states |-> limit_states(v, ctrl, motor_temp, input_voltage)]]

\* No packet framed yet.
NoPacket ==
    [type |-> "", timestamp_ms |-> 0, apps_data |-> <<>>, bms_data |-> <<>>,
     inverter_data |-> <<>>]

\* Mutant: the BMS and the inverter branch copy into each other's field.
create_telemetry_packet_crossed(data_type, timestamp_ms, kwargs) ==
    LET packet == [NoPacket EXCEPT !.type = data_type, !.timestamp_ms = timestamp_ms]
    IN IF data_type = "APPS" THEN [packet EXCEPT !.apps_data = <<kwargs.apps_data>>]
       ELSE IF data_type = "BMS"
         THEN [packet EXCEPT !.inverter_data = <<kwargs.bms_data>>]
       ELSE IF data_type = "INVERTER"
         THEN [packet EXCEPT !.bms_data = <<kwargs.inverter_data>>]
       ELSE packet

\* TelemetrySender.create_telemetry_packet: kwargs is the record of the
\* keyword arguments; a payload field holds <<record>> once set, <<>> unset.
create_telemetry_packet(data_type, timestamp_ms, kwargs) ==
    LET packet == [NoPacket EXCEPT !.type = data_type, !.timestamp_ms = timestamp_ms]
    IN IF data_type = "APPS" THEN [packet EXCEPT !.apps_data = <<kwargs.apps_data>>]
       ELSE IF data_type = "BMS" THEN [packet EXCEPT !.bms_data = <<kwargs.bms_data>>]
       ELSE IF data_type = "INVERTER"
         THEN [packet EXCEPT !.inverter_data = <<kwargs.inverter_data>>]
       ELSE packet

---------------------------------------------------------------------------
(* Program state *)

VARIABLES
    variant,            \* "clean": cleansend.py main; "sender": telemetry_sender.py main
    mission_profile,    \* self.mission_profile (clean variant)
    duration,           \* the duration argument (NoDuration: None)
    packet_rate,        \* the packet_rate argument (Hz)
    pc,                 \* position of the program
    now,                \* the clock read by time.time(), ms
    serial_conn,        \* "none" (None), "open", "closed"
    packet_interval, start_time, last_packet_time, current_time,
    packet_count,       \* locals of run_simulation / run_clean_simulation
    packet,             \* the packet framed for the current emission
    veh,                \* the vehicle state attributes
    stdout_suppressed,  \* sys.stdout / sys.stderr are the /dev/null streams
    exit_status,        \* <<>> while running, <<code>> once the process ended
    final_report,       \* <<n>> once the finally block logged its packet total
    \* history of the run
    sent,               \* data kinds of the packets send_packet reported written
    write_failures,     \* send_packet calls that returned False
    writes_after_close, \* writes attempted after the transport was closed
    close_count,        \* calls of serial_conn.close()
    connect_failed,     \* connect() returned False
    interrupted_at,     \* pc at which KeyboardInterrupt arrived ("" if none)
    cause,              \* why the loop was left ("" while it has not been)
    attempt_times,      \* clock readings of the last two emission attempts
    advances,           \* calls of generate_clean_data
    advanced,           \* the vehicle state the latest of them left
    steps,              \* vehicle operations applied (SpecVehicle)
    call,               \* the function evaluated last and its arguments
    result              \* what that evaluation returned (SpecFunctions)

cfgVars == <<variant, mission_profile, duration, packet_rate>>

fnVars == <<call, result>>

loopVars == <<packet_interval, start_time, last_packet_time, current_time,
              packet_count, packet>>

histVars == <<sent, write_failures, writes_after_close, close_count,
              connect_failed, interrupted_at, cause>>

vars == <<cfgVars, fnVars, pc, now, serial_conn, loopVars, veh, advances, advanced, steps,
          stdout_suppressed, exit_status, final_report, histVars, attempt_times>>

\* duration = None
NoDuration == 0 - 1

\* data_types, lines 187-191 / 265-269
data_types == <<"APPS", "BMS", "INVERTER">>

\* Positions inside the while loop
Running == {"top", "emit", "send", "sleep"}

---------------------------------------------------------------------------
(* Inputs explored *)

Variants == {"clean", "sender"}

LoopProfiles == {"city", "highway"}

Durations == {NoDuration, 0, 300}

Rates == {5, 10}

\* Clock advance between two reads of time.time(): the sleep(0.001) plus
\* whatever the iteration and the scheduler add.
SleepSteps == {50, 100}

\* Gauss samples and sine values used by the dispatch loops of Spec.
LoopSamples == {0 - 2, 1}

LoopSines == {0}

---------------------------------------------------------------------------
(* The dispatch loop: helpers *)

\* if duration and elapsed_time >= duration
duration_expired(d, elapsed_time) ==
    d # NoDuration /\ d # 0 /\ elapsed_time >= d

\* Mutant: a packet is due from half the interval on.
pacing_due_half_interval(cur, last, interval) == 2 * (cur - last) >= interval

\* if current_time - last_packet_time >= packet_interval
pacing_due(cur, last, interval) == cur - last >= interval

\* History: the clock readings of the last two emission attempts.
last_two(times, t) ==
    IF times = <<>> THEN <<t>> ELSE <<times[Len(times)], t>>

\* Mutant: the counter is incremented whatever send_packet returned.
count_after_send_unconditional(count, ok) == count + 1

\* if self.send_packet(packet): packet_count += 1
count_after_send(count, ok) == IF ok THEN count + 1 ELSE count

\* Mutant: the rotation starts one kind late.
select_data_type_off_by_one(count) == data_types[((count + 1) % Len(data_types)) + 1]

\* data_type = data_types[packet_count % len(data_types)]
select_data_type(count) == data_types[(count % Len(data_types)) + 1]

\* The cells of a segment, all with the sine value s and the gauss sample z.
same_cells(s, z) == [i \in 1..CellsPerSegment |-> [s |-> s, z |-> z]]

\* Mutant: generate_clean_data is called a second time in the emission.
build_packet_advance_twice(var, v, mp, count, elapsed_time, timestamp_ms, s, z) ==
    LET data_type == select_data_type(count)
        v0 == generate_clean_data(v, mp, elapsed_time, s, <<z, z, z, z>>)
        v1 == IF var = "clean"
                THEN generate_clean_data(v0, mp, elapsed_time, s, <<z, z, z, z>>)
                ELSE v
        apps == generate_apps_data(v1, elapsed_time, s, FALSE, 0, <<z, z>>)
        bms == generate_bms_data(v1, elapsed_time, s, <<z, z, z>>, same_cells(s, z))
        inverter == generate_inverter_data(v1, elapsed_time, <<z, z, z, z, z, z, z>>)
    IN IF data_type = "APPS"
         THEN [veh |-> apps.veh, advanced |-> v1,
               packet |-> create_telemetry_packet(data_type, timestamp_ms,
                                                  [apps_data |-> apps.data])]
       ELSE IF data_type = "BMS"
         THEN [veh |-> bms.veh, advanced |-> v1,
               packet |-> create_telemetry_packet(data_type, timestamp_ms,
                                                  [bms_data |-> bms.data])]
       ELSE [veh |-> inverter.veh, advanced |-> v1,
             packet |-> create_telemetry_packet(data_type, timestamp_ms,
                                                [inverter_data |-> inverter.data])]

\* Lines 207-222 (clean) and 285-308 (sender): the vehicle state after the
\* emission's data generation (advanced: after generate_clean_data alone)
\* and the packet framed from it.  One gauss
\* sample z serves every gauss call of the emission; the random.random()
\* samples of generate_apps_data (read from elapsed 15 s on) are taken as
\* no idle reset and 0.0.
build_packet(var, v, mp, count, elapsed_time, timestamp_ms, s, z) ==
    LET data_type == select_data_type(count)
        v1 == IF var = "clean"
                THEN generate_clean_data(v, mp, elapsed_time, s, <<z, z, z, z>>)
                ELSE v
        apps == generate_apps_data(v1, elapsed_time, s, FALSE, 0, <<z, z>>)
        bms == generate_bms_data(v1, elapsed_time, s, <<z, z, z>>, same_cells(s, z))
        inverter == generate_inverter_data(v1, elapsed_time, <<z, z, z, z, z, z, z>>)
    IN IF data_type = "APPS"
         THEN [veh |-> apps.veh, advanced |-> v1,
               packet |-> create_telemetry_packet(data_type, timestamp_ms,
                                                  [apps_data |-> apps.data])]
       ELSE IF data_type = "BMS"
         THEN [veh |-> bms.veh, advanced |-> v1,
               packet |-> create_telemetry_packet(data_type, timestamp_ms,
                                                  [bms_data |-> bms.data])]
       ELSE [veh |-> inverter.veh, advanced |-> v1,
             packet |-> create_telemetry_packet(data_type, timestamp_ms,
                                                [inverter_data |-> inverter.data])]

\* Mutant: the return after a failed connect() is missing.
connect_failed_falls_through == "connected"

\* Mutant: 1 / packet_rate evaluated as an integer division.
packet_interval_integer_division(rate) == (1 \div rate) * MsPerSec

\* packet_interval = 1.0 / packet_rate, in ms.
packet_interval_of(rate) == MsPerSec \div rate

\* Where the program is after connect() returned False: run_simulation /
\* run_clean_simulation return and main ends.
connect_failed_pc == "exited"

\* The exit status of a process whose main returned normally.
main_return_status == 0

\* send_packet: False without a write when the transport is not open,
\* otherwise whether the write went through (ok) or raised (not ok).
send_packet(conn, ok) == conn = "open" /\ ok

\* The loop position after a failed send: break (sender) or carry on (clean).
after_failed_send(var) == IF var = "sender" THEN "finally" ELSE "sleep"

\* Mutant: the clean variant's finally block does not close the transport.
finally_closes_sender_only(var, conn) == var = "sender" /\ conn = "open"

\* Mutant: send_packet swallows a KeyboardInterrupt raised inside the write
\* (a bare except) and the loop carries on.
after_interrupt_swallowed_in_write(p) == IF p = "send" THEN "send" ELSE "finally"

\* except KeyboardInterrupt: the handler runs, then the finally block.
after_interrupt(p) == "finally"

\* The finally block's release of the transport: clean closes when
\* serial_conn is set, sender's disconnect() when it is set and open.
finally_closes(var, conn) ==
    IF var = "clean" THEN conn # "none" ELSE conn = "open"

---------------------------------------------------------------------------
(* The dispatch loop: actions *)

Connect ==
    /\ pc = "start"
    /\ \E ok \in BOOLEAN :
         IF ok
           THEN /\ serial_conn' = "open"
                /\ pc' = "connected"
                /\ UNCHANGED <<connect_failed, exit_status>>
           ELSE /\ serial_conn' = "none"
                /\ connect_failed' = TRUE
                /\ pc' = connect_failed_pc
                /\ exit_status' = IF connect_failed_pc = "exited"
                                    THEN <<main_return_status>> ELSE <<>>
    /\ UNCHANGED <<cfgVars, fnVars, attempt_times,
                   now, loopVars, veh, advances, advanced, steps, stdout_suppressed,
                   final_report, sent, write_failures, writes_after_close,
                   close_count, interrupted_at, cause>>

\* Lines 175-196 / 257-273: the setup between connect() and the loop.
EnterLoop ==
    /\ pc = "connected"
    /\ packet_interval' = packet_interval_of(packet_rate)
    /\ packet_count' = 0
    /\ start_time' = now
    /\ last_packet_time' = now
    /\ pc' = "top"
    /\ UNCHANGED <<cfgVars, fnVars, attempt_times,
                   now, serial_conn, current_time, packet, veh, advances, advanced,
                   steps, stdout_suppressed, exit_status, final_report, histVars>>

\* KeyboardInterrupt between connect() and the try statement: nothing
\* catches it.
InterruptBeforeLoop ==
    /\ pc = "connected"
    /\ serial_conn = "open"
    /\ interrupted_at' = pc
    /\ pc' = "exited"
    /\ exit_status' = <<130>>
    /\ UNCHANGED <<cfgVars, fnVars, attempt_times,
                   now, serial_conn, loopVars, veh, advances, advanced, steps,
                   stdout_suppressed, final_report, sent, write_failures,
                   writes_after_close, close_count, connect_failed, cause>>

\* Top of an iteration, duration reached: break.
DurationBreak ==
    /\ pc = "top"
    /\ duration_expired(duration, now - start_time)
    /\ current_time' = now
    /\ cause' = "duration"
    /\ pc' = "finally"
    /\ UNCHANGED <<cfgVars, fnVars, attempt_times,
                   now, serial_conn, packet_interval, start_time,
                   last_packet_time, packet_count, packet, veh, advances, advanced, steps,
                   stdout_suppressed, exit_status, final_report, sent,
                   write_failures, writes_after_close, close_count, connect_failed,
                   interrupted_at>>

\* Top of an iteration, a packet is due.
TimeToSend ==
    /\ pc = "top"
    /\ ~duration_expired(duration, now - start_time)
    /\ pacing_due(now, last_packet_time, packet_interval)
    /\ current_time' = now
    /\ attempt_times' = last_two(attempt_times, now)
    /\ pc' = "emit"
    /\ UNCHANGED <<cfgVars, fnVars,
                   now, serial_conn, packet_interval, start_time,
                   last_packet_time, packet_count, packet, veh, advances, advanced, steps,
                   stdout_suppressed, exit_status, final_report, histVars>>

\* Top of an iteration, no packet due yet.
NotDue ==
    /\ pc = "top"
    /\ ~duration_expired(duration, now - start_time)
    /\ ~pacing_due(now, last_packet_time, packet_interval)
    /\ current_time' = now
    /\ pc' = "sleep"
    /\ UNCHANGED <<cfgVars, fnVars, attempt_times,
                   now, serial_conn, packet_interval, start_time,
                   last_packet_time, packet_count, packet, veh, advances, advanced, steps,
                   stdout_suppressed, exit_status, final_report, histVars>>

\* Advance the vehicle (clean), build the record of the selected kind and
\* frame it.
Build(Samples, Sines) ==
    /\ pc = "emit"
    /\ \E z \in Samples, s \in Sines :
         LET b == build_packet(variant, veh, mission_profile, packet_count,
                               current_time - start_time, current_time, s, z)
         IN /\ veh' = b.veh
            /\ packet' = b.packet
            /\ advanced' = IF variant = "clean" THEN b.advanced ELSE advanced
    /\ advances' = IF variant = "clean" THEN advances + 1 ELSE advances
    /\ pc' = "send"
    /\ UNCHANGED <<cfgVars, fnVars, attempt_times,
                   now, serial_conn, packet_interval, start_time,
                   last_packet_time, current_time, packet_count, steps,
                   stdout_suppressed, exit_status, final_report, histVars>>

\* An exception other than KeyboardInterrupt raised while the packet is
\* built: except Exception, then finally.
UnexpectedException ==
    /\ pc = "emit"
    /\ cause' = "exception"
    /\ pc' = "finally"
    /\ UNCHANGED <<cfgVars, fnVars, attempt_times,
                   now, serial_conn, loopVars, veh, advances, advanced, steps,
                   stdout_suppressed, exit_status, final_report, sent,
                   write_failures, writes_after_close, close_count, connect_failed,
                   interrupted_at>>

\* send_packet returned True.
SendOk ==
    /\ pc = "send"
    /\ send_packet(serial_conn, TRUE)
    /\ packet_count' = count_after_send(packet_count, TRUE)
    /\ sent' = Append(sent, packet.type)
    /\ last_packet_time' = current_time
    /\ writes_after_close' = writes_after_close + (IF close_count > 0 THEN 1 ELSE 0)
    /\ pc' = "sleep"
    /\ UNCHANGED <<cfgVars, fnVars, attempt_times,
                   now, serial_conn, packet_interval, start_time,
                   current_time, packet, veh, advances, advanced, steps, stdout_suppressed,
                   exit_status, final_report, write_failures, close_count,
                   connect_failed, interrupted_at, cause>>

\* send_packet returned False: the write raised, or the transport is not open.
SendFail ==
    /\ pc = "send"
    /\ ~send_packet(serial_conn, FALSE)
    /\ packet_count' = count_after_send(packet_count, FALSE)
    /\ write_failures' = write_failures + 1
    /\ writes_after_close' = writes_after_close
                               + (IF serial_conn = "open" /\ close_count > 0 THEN 1 ELSE 0)
    /\ pc' = after_failed_send(variant)
    /\ IF after_failed_send(variant) = "finally"
         THEN cause' = "write_failure" /\ UNCHANGED last_packet_time
         ELSE last_packet_time' = current_time /\ UNCHANGED cause
    /\ UNCHANGED <<cfgVars, fnVars, attempt_times,
                   now, serial_conn, packet_interval, start_time,
                   current_time, packet, veh, advances, advanced, steps,
                   stdout_suppressed, exit_status, final_report, sent, close_count,
                   connect_failed, interrupted_at>>

\* time.sleep(0.001); the next read of the clock is d ms later.
Sleep(Steps, cap) ==
    /\ pc = "sleep"
    /\ \E d \in Steps :
         /\ now + d <= cap
         /\ now' = now + d
    /\ pc' = "top"
    /\ UNCHANGED <<cfgVars, fnVars, attempt_times,
                   serial_conn, loopVars, veh, advances, advanced, steps,
                   stdout_suppressed, exit_status, final_report, histVars>>

\* KeyboardInterrupt inside the try statement.  At "send" it may arrive
\* inside send_packet; the clean variant's send_packet has then replaced
\* sys.stdout / sys.stderr and its except Exception does not catch it.
Interrupt ==
    /\ pc \in Running
    /\ interrupted_at' = pc
    /\ cause' = "interrupt"
    /\ \E in_write \in BOOLEAN :
         stdout_suppressed' =
            (stdout_suppressed \/ (variant = "clean" /\ pc = "send" /\ in_write))
    /\ pc' = after_interrupt(pc)
    /\ UNCHANGED <<cfgVars, fnVars, attempt_times,
                   now, serial_conn, loopVars, veh, advances, advanced, steps,
                   exit_status, final_report, sent, write_failures,
                   writes_after_close, close_count, connect_failed>>

\* The finally block, then the return to main and the end of the process.
Finally ==
    /\ pc = "finally"
    /\ IF finally_closes(variant, serial_conn)
         THEN serial_conn' = "closed" /\ close_count' = close_count + 1
         ELSE UNCHANGED <<serial_conn, close_count>>
    /\ final_report' = <<packet_count>>
    /\ exit_status' = <<main_return_status>>
    /\ pc' = "exited"
    /\ UNCHANGED <<cfgVars, fnVars, attempt_times,
                   now, loopVars, veh, advances, advanced, steps, stdout_suppressed,
                   sent, write_failures, writes_after_close, connect_failed,
                   interrupted_at, cause>>

---------------------------------------------------------------------------
(* Specification of the two programs *)

\* Everything of InitState but the clock and the vehicle.
InitRest ==
    /\ serial_conn = "none"
    /\ packet_interval = 0
    /\ start_time = 0
    /\ last_packet_time = 0
    /\ current_time = 0
    /\ packet_count = 0
    /\ packet = NoPacket
    /\ stdout_suppressed = FALSE
    /\ exit_status = <<>>
    /\ final_report = <<>>
    /\ sent = <<>>
    /\ write_failures = 0
    /\ writes_after_close = 0
    /\ close_count = 0
    /\ connect_failed = FALSE
    /\ interrupted_at = ""
    /\ cause = ""
    /\ attempt_times = <<>>
    /\ advances = 0
    /\ advanced = InitVehicle
    /\ steps = 0
    /\ call = [op |-> "none"]
    /\ result = <<>>

InitState ==
    /\ now = 0
    /\ veh = InitVehicle
    /\ InitRest

Init ==
    /\ variant \in Variants
    /\ mission_profile \in (IF variant = "clean" THEN LoopProfiles ELSE {"city"})
    /\ duration \in Durations
    /\ packet_rate \in Rates
    /\ pc = "start"
    /\ InitState

Next ==
    \/ Connect
    \/ EnterLoop
    \/ InterruptBeforeLoop
    \/ DurationBreak
    \/ TimeToSend
    \/ NotDue
    \/ Build(LoopSamples, LoopSines)
    \/ UnexpectedException
    \/ SendOk
    \/ SendFail
    \/ Sleep(SleepSteps, MaxClock)
    \/ Interrupt
    \/ Finally

Spec == Init /\ [][Next]_vars

---------------------------------------------------------------------------
(* Properties of the dispatch loops (Spec) *)

Kinds == {"APPS", "BMS", "INVERTER"}

kind_count(seq, k) == Cardinality({i \in 1..Len(seq) : seq[i] = k})

\* C1: the kinds of the successfully written packets are cyclic APPS, BMS,
\* INVERTER, APPS, ... from APPS on, whatever writes failed in between, and
\* the per-kind counts differ by at most 1.
C1_RoundRobin ==
    /\ \A i \in 1..Len(sent) : sent[i] = data_types[((i - 1) % 3) + 1]
    /\ \A k1, k2 \in Kinds : kind_count(sent, k1) - kind_count(sent, k2) <= 1

C1_Witness ==
    /\ variant = "clean"
    /\ Len(sent) >= 4
    /\ write_failures >= 1

\* C2 (as claimed): after a failed write the loop has left Running, in both
\* dispatch loops.
C2_FailureTerminates == write_failures > 0 => pc \notin Running

\* C3: once the loop was entered with the transport open, every way out of
\* it (duration, interrupt, write failure, exception) ends with the transport
\* closed exactly once, and no write is attempted after a close.
C3_ClosedOnce ==
    /\ close_count <= 1
    /\ writes_after_close = 0
    /\ (pc = "exited" /\ cause # "") => (close_count = 1 /\ serial_conn = "closed")

C3_Witness ==
    /\ pc = "exited"
    /\ cause = "exception"
    /\ Len(sent) >= 1
    /\ close_count = 1

\* C4: after a failed connect() the loop is never entered: the vehicle state
\* is as constructed, nothing was built or written, the counter is 0.
C4_NoRunAfterConnectFailure ==
    connect_failed =>
        /\ pc = "exited"
        /\ veh = InitVehicle
        /\ advances = 0
        /\ packet = NoPacket
        /\ packet_count = 0
        /\ sent = <<>> /\ write_failures = 0

C4_Witness == connect_failed /\ pc = "exited" /\ serial_conn = "none"

\* C5 (as claimed): a failed connect() ends the process with a non-zero exit
\* status.
C5_NonZeroExit == (connect_failed /\ pc = "exited") => exit_status # <<0>>

\* C8 (as claimed): with a duration bound configured (>= 0), no packet is
\* emitted from a clock reading at or past the bound.
C8_DurationBound ==
    (duration # NoDuration /\ pc = "send") => current_time - start_time < duration

C15_CounterCountsWrites ==
    /\ packet_count = Len(sent)
    /\ final_report # <<>> => final_report = <<Len(sent)>>

C15_Witness ==
    /\ variant = "clean"
    /\ write_failures >= 2
    /\ packet_count >= 2
    /\ pc = "exited"

\* C17 (as claimed): in run_clean_simulation the record builder called after
\* the advance leaves throttle_position, motor_current, motor_rpm,
\* pack_temperature and controller_temp as the advance set them.
C17_BuildersArePure ==
    (variant = "clean" /\ pc = "send") =>
        /\ veh.throttle_position = advanced.throttle_position
        /\ veh.motor_current = advanced.motor_current
        /\ veh.motor_rpm = advanced.motor_rpm
        /\ veh.pack_temperature = advanced.pack_temperature
        /\ veh.controller_temp = advanced.controller_temp

\* C18: every emission attempt is made at least one packet interval after
\* loop start, two consecutive attempts (the earlier one successful or not)
\* are at least one packet interval apart, and while a packet is being built
\* or written the interval since the last attempt has elapsed.
C18_Pacing ==
    /\ \A i \in 1..Len(attempt_times) :
         attempt_times[i] - start_time >= MsPerSec \div packet_rate
    /\ Len(attempt_times) = 2 =>
         attempt_times[2] - attempt_times[1] >= MsPerSec \div packet_rate
    /\ pc \in {"emit", "send"} =>
         /\ attempt_times # <<>>
         /\ attempt_times[Len(attempt_times)] = current_time
         /\ current_time - last_packet_time >= MsPerSec \div packet_rate

C18_Witness ==
    /\ variant = "clean"
    /\ packet_rate = 5
    /\ Len(attempt_times) = 2
    /\ write_failures >= 1
    /\ pc = "send"

\* The payload field of packet p that belongs to kind k.
payload_of(p, k) ==
    IF k = "APPS" THEN p.apps_data
    ELSE IF k = "BMS" THEN p.bms_data
    ELSE p.inverter_data

\* C20: the packet handed to send_packet carries the tag of the kind due in
\* the rotation and the millisecond timestamp of the emission; exactly the
\* payload of that kind is set; it holds a record of that kind, and the
\* record's values are those of the vehicle state it was built from.
C20_Framing ==
    pc = "send" =>
        /\ packet.type = data_types[(packet_count % 3) + 1]
        /\ packet.timestamp_ms = current_time
        /\ \A k \in Kinds : (payload_of(packet, k) # <<>>) <=> (k = packet.type)
        /\ Len(payload_of(packet, packet.type)) = 1
        /\ payload_of(packet, packet.type)[1].kind = packet.type
        /\ packet.type = "APPS" =>
             /\ packet.apps_data[1].current_throttle_percentage = veh.throttle_position
             /\ packet.apps_data[1].current_motor_current = veh.motor_current
             /\ packet.apps_data[1].current_motor_rpm = Max(0, veh.motor_rpm)
        /\ packet.type = "INVERTER" =>
             packet.inverter_data[1].controller_temperature = veh.controller_temp

C20_Witness ==
    /\ pc = "send"
    /\ variant = "sender"
    /\ packet.type = "INVERTER"
    /\ packet.inverter_data # <<>>
    /\ packet.timestamp_ms > 0

\* C22: in run_clean_simulation the vehicle changes only in the step that
\* builds a packet; that step calls generate_clean_data once, on the vehicle
\* as it was and at the emission's elapsed time, and builds the record from
\* the vehicle so advanced; an iteration in which no packet is due leaves
\* the vehicle and the packet counter as they were.
C22_OneAdvancePerEmission ==
    [][variant = "clean" =>
         /\ (veh' # veh \/ advances' # advances \/ advanced' # advanced) =>
              (pc = "emit" /\ pc' = "send")
         /\ (pc = "emit" /\ pc' = "send") =>
              /\ advances' = advances + 1
              /\ \E s \in LoopSines, z \in LoopSamples :
                   /\ advanced' = generate_clean_data(veh, mission_profile,
                                     current_time - start_time, s, <<z, z, z, z>>)
                   /\ advanced'.last_update_time = current_time - start_time
                   /\ veh' \in
                        {generate_apps_data(advanced', current_time - start_time,
                                            s, FALSE, 0, <<z, z>>).veh,
                         generate_bms_data(advanced', current_time - start_time,
                                           s, <<z, z, z>>, same_cells(s, z)).veh,
                         generate_inverter_data(advanced', current_time - start_time,
                                                <<z, z, z, z, z, z, z>>).veh}
         /\ (pc = "top" /\ pc' = "sleep") =>
              (veh' = veh /\ packet_count' = packet_count)]_vars

C22_Witness ==
    /\ variant = "clean"
    /\ advances = 2
    /\ Len(sent) = 2
    /\ pc = "sleep"
    /\ current_time > last_packet_time
    /\ veh.last_update_time = last_packet_time - start_time

\* C23 (as claimed): whenever control is outside send_packet, after a normal
\* return, a write exception or an interrupt raised during the write,
\* sys.stdout and sys.stderr are the original streams.
C23_SuppressionScoped == pc # "send" => ~stdout_suppressed

---------------------------------------------------------------------------
(* Specification of the vehicle model: generate_clean_data and the three    *)
(* record builders applied in any order at non-decreasing elapsed times.    *)
(* now is the elapsed time of the last operation.                           *)

VehProfiles == ProfileNames \cup {"unknown"}

\* Elapsed time between two operations, ms.
VehDeltas == {100, 6000, 40000}

VehSines == {0 - FP, FP}

\* Gauss sample vectors <<current, rpm, pack, controller>>.
VehSamples4 == {<<0 - 2, 0 - 2, 2, 2>>, <<2, 1, 0 - 2, 0>>}

\* Gauss sample vectors of the builders (a prefix is used).
VehSamples3 == {<<0 - 2, 0 - 3, 2>>, <<1, 2, 0 - 2>>}

\* Gauss sample vectors of generate_inverter_data.
VehSamples7 == {<<0 - 2, 0 - 3, 2, 1, 0 - 1, 2, 0>>, <<1, 2, 0 - 2, 0 - 3, 3, 0, 1>>}

\* Inputs of generate_apps_data besides the gauss samples: the sine value,
\* random.random() < 0.05, and the second random.random() sample (fixed point).
VehAppsInputs ==
    {[s |-> 0 - FP, idle |-> TRUE, u |-> 0],
     [s |-> FP, idle |-> FALSE, u |-> 0],
     [s |-> FP, idle |-> FALSE, u |-> FP - 1]}

\* Inputs of generate_bms_data: the sine value and the gauss samples
\* <<pack, positive, negative>>.
VehBmsInputs ==
    {[s |-> 0 - FP, z |-> <<0 - 2, 0 - 3, 2>>], [s |-> FP, z |-> <<1, 2, 0 - 2>>]}

\* highway_run[k]: the vehicle after the first k emissions of
\* run_clean_simulation for the highway profile at 0.25 Hz (emission k at
\* elapsed 4k s, kinds in rotation), every sample 0.  highway_run[17], at
\* 68 s, is late in the passing surge (50 s < elapsed < 70 s).
highway_run[k \in 0..17] ==
    IF k = 0 THEN InitVehicle
    ELSE build_packet("clean", highway_run[k - 1], "highway", k - 1,
                      k * 4 * MsPerSec, k * 4 * MsPerSec, 0, 0).veh

VehAdvance ==
    /\ pc = "vehicle"
    /\ steps < MaxSteps
    /\ \E d \in VehDeltas, s \in VehSines, z \in VehSamples4 :
         /\ now' = now + d
         /\ veh' = generate_clean_data(veh, mission_profile, now + d, s, z)
    /\ advances' = advances + 1
    /\ advanced' = veh'
    /\ steps' = steps + 1
    /\ UNCHANGED <<cfgVars, fnVars, attempt_times,
                   pc, serial_conn, loopVars, stdout_suppressed,
                   exit_status, final_report, histVars>>

VehApps ==
    /\ pc = "vehicle"
    /\ steps < MaxSteps
    /\ \E d \in VehDeltas, r \in VehAppsInputs, z \in VehSamples3 :
         /\ now' = now + d
         /\ veh' = generate_apps_data(veh, now + d, r.s, r.idle, r.u, z).veh
    /\ steps' = steps + 1
    /\ UNCHANGED <<cfgVars, fnVars, attempt_times,
                   pc, serial_conn, loopVars, advances, advanced, stdout_suppressed,
                   exit_status, final_report, histVars>>

VehBms ==
    /\ pc = "vehicle"
    /\ steps < MaxSteps
    /\ \E d \in VehDeltas, r \in VehBmsInputs :
         /\ now' = now + d
         /\ veh' = bms_vehicle(veh, now + d, r.s, r.z[1])
    /\ steps' = steps + 1
    /\ UNCHANGED <<cfgVars, fnVars, attempt_times,
                   pc, serial_conn, loopVars, advances, advanced, stdout_suppressed,
                   exit_status, final_report, histVars>>

VehInverter ==
    /\ pc = "vehicle"
    /\ steps < MaxSteps
    /\ \E d \in VehDeltas, z \in VehSamples7 :
         /\ now' = now + d
         /\ veh' = generate_inverter_data(veh, now + d, z).veh
    /\ steps' = steps + 1
    /\ UNCHANGED <<cfgVars, fnVars, attempt_times,
                   pc, serial_conn, loopVars, advances, advanced, stdout_suppressed,
                   exit_status, final_report, histVars>>

\* The vehicle as constructed, for every profile name, and the highway
\* vehicle 68 s into a run.
InitVeh ==
    /\ variant = "clean"
    /\ duration = NoDuration
    /\ packet_rate = 10
    /\ pc = "vehicle"
    /\ \/ /\ mission_profile \in VehProfiles
          /\ now = 0
          /\ veh = InitVehicle
       \/ /\ mission_profile = "highway"
          /\ now = 17 * 4 * MsPerSec
          /\ veh = highway_run[17]
    /\ InitRest

NextVehicle == VehAdvance \/ VehApps \/ VehBms \/ VehInverter

SpecVehicle == InitVeh /\ [][NextVehicle]_vars

---------------------------------------------------------------------------
(* Properties of the vehicle model (SpecVehicle) *)

\* C6 (as claimed): after every advance (generate_clean_data) motor_rpm is
\* not negative.  advances = steps: only advances have been applied so far.
C6_RpmNeverNegative ==
    (pc = "vehicle" /\ advances = steps) => veh.motor_rpm >= 0

\* C7: throttle_position is in [0, 1] after any sequence of advances and
\* record builders.
C7_ThrottleInRange ==
    0 <= veh.throttle_position /\ veh.throttle_position <= FP

C7_Witness ==
    /\ pc = "vehicle"
    /\ advances >= 1
    /\ steps > advances
    /\ veh.throttle_position >= FP \div 4

\* C19 (as claimed): over a sequence of advances alone, at non-decreasing
\* elapsed times, odometer and energy_consumed never decrease, and an advance
\* with no previous timestamp leaves both unchanged.
C19_AccumulatorsMonotonic ==
    [][(pc = "vehicle" /\ advances = steps /\ advances' = advances + 1) =>
          /\ veh'.odometer >= veh.odometer
          /\ veh'.energy_consumed >= veh.energy_consumed
          /\ veh.last_update_time = 0 =>
               /\ veh'.odometer = veh.odometer
               /\ veh'.energy_consumed = veh.energy_consumed]_vars

---------------------------------------------------------------------------
(* Specification of the functions: a mission profile, the fault code logic  *)
(* or generate_clean_data is evaluated on arguments drawn from the sets     *)
(* below, one evaluation per behaviour; call holds the arguments, result    *)
(* the value returned.                                                      *)

\* Elapsed times (s) at and around the branch boundaries of the profiles.
FnSeconds == {0, 5, 10, 15, 20, 35, 40, 45, 50, 55, 60, 70, 100, 120, 130,
              170, 180, 190, 300, 3600}

\* The times of FnSeconds in ms, and the readings 1 ms before and after.
FnTimes ==
    {k * MsPerSec + e : k \in FnSeconds, e \in {0 - 1, 0, 1}} \ {0 - 1}

\* Values of a sine term.
FnSines == {0 - FP, 0 - (FP \div 2), 0, FP \div 3, FP}

\* Inputs of the fault code logic, at and around the thresholds.
FaultControllerTemps == {70 * FP, 90 * FP, 90 * FP + 1, 95 * FP}

FaultMotorTemps == {50 * FP, 110 * FP, 110 * FP + 1}

FaultVoltages == {60 * FP - 1, 60 * FP, 80 * FP, 95 * FP, 95 * FP + 1}

FaultCurrents == {50 * FP, 160 * FP, 160 * FP + 1, 0 - (160 * FP + 1)}

\* Vehicle states generate_clean_data is applied to: as constructed, and
\* 12 s and 20 s into a highway run.
FnVehicles == {InitVehicle, highway_run[3], highway_run[5]}

\* Mission profile names: the five known ones and three that are not.
FnProfileNames == ProfileNames \cup {"unknown", "", "City"}

\* Elapsed times (s) of the advance, one or more per branch of _city_profile.
FnAdvanceSeconds == {70, 80, 100, 110, 125}

fnFrame == <<cfgVars, now, serial_conn, loopVars, veh, advances, advanced,
             steps, stdout_suppressed, exit_status, final_report, histVars,
             attempt_times>>

FnProfile ==
    /\ pc = "functions"
    /\ \E mp \in FnProfileNames, t \in FnTimes, s \in FnSines :
         /\ call' = [op |-> "profile", mp |-> mp, t |-> t, s |-> s]
         /\ result' = profile_func(mp, t, s)
    /\ pc' = "returned"
    /\ UNCHANGED fnFrame

FnFaultCode ==
    /\ pc = "functions"
    /\ \E c \in FaultControllerTemps, m \in FaultMotorTemps,
          u \in FaultVoltages, i \in FaultCurrents :
         /\ call' = [op |-> "fault_code", controller_temp |-> c, motor_temp |-> m,
                     input_voltage |-> u, motor_current |-> i]
         /\ result' = fault_code(c, m, u, i)
    /\ pc' = "returned"
    /\ UNCHANGED fnFrame

FnAdvance ==
    /\ pc = "functions"
    /\ \E v \in FnVehicles, mp \in FnProfileNames, k \in FnAdvanceSeconds,
          s \in VehSines, z \in VehSamples4 :
         /\ call' = [op |-> "advance", v |-> v, mp |-> mp, t |-> k * MsPerSec,
                     s |-> s, z |-> z]
         /\ result' = generate_clean_data(v, mp, k * MsPerSec, s, z)
    /\ pc' = "returned"
    /\ UNCHANGED fnFrame

\* Gauss sample vectors <<current, rpm, pack, controller>> of the advance
\* that leaves the vehicle the builders are applied to, far tails included.
FnBuilderSamples ==
    {<<0 - 80, 0 - 2, 0, 0>>, <<0 - 2, 0 - 2, 0, 0>>, <<0, 0, 0, 0>>,
     <<26, 3, 0, 0>>, <<35, 0, 0, 0>>}

\* Vehicle states the builders are applied to: as constructed, and after an
\* advance at elapsed 24 s, idle or on track, from the vehicle as constructed
\* or 20 s into a highway run.
FnBuilderVehicles ==
    {InitVehicle} \cup
    {generate_clean_data(v, mp, 24 * MsPerSec, FP, z) :
        v \in {InitVehicle, highway_run[5]}, mp \in {"idle", "track_day"},
        z \in FnBuilderSamples}

\* Elapsed times (s) of generate_apps_data, one per band.
FnAppsSeconds == {2, 7, 12, 25}

\* Gauss sample vectors <<current, rpm>> of generate_apps_data.
FnAppsSamples == {<<0, 0 - 3>>, <<2, 3>>, <<0 - 60, 0 - 90>>}

\* Gauss sample vectors <<pack, positive, negative>> of generate_bms_data.
FnBmsSamples == {<<0, 0 - 3, 2>>, <<1, 2, 0 - 2>>, <<0 - 2, 0 - 200, 0>>}

\* Sine value and gauss sample of the cells of a segment: all low, all high,
\* and alternating.
FnCells ==
    {same_cells(0 - FP, 0 - 30), same_cells(FP, 30),
     [i \in 1..CellsPerSegment |->
        IF i % 2 = 0 THEN [s |-> FP, z |-> 2] ELSE [s |-> 0 - FP, z |-> 0 - 30]]}

\* Gauss samples of generate_inverter_data, by position.
FnControllerSamples == {0 - 2, 0, 20, 35}

FnMotorSamples == {0, 35, 50}

FnErpmSamples == {0 - 3, 0}

FnDutySamples == {0 - 60, 0, 60}

FnVoltageSamples == {0 - 25, 0 - 15, 0, 7, 12}

FnApps ==
    /\ pc = "functions"
    /\ \E v \in FnBuilderVehicles, k \in FnAppsSeconds, r \in VehAppsInputs,
          z \in FnAppsSamples :
         /\ call' = [op |-> "apps", v |-> v, t |-> k * MsPerSec, r |-> r, z |-> z]
         /\ result' = generate_apps_data(v, k * MsPerSec, r.s, r.idle, r.u, z)
    /\ pc' = "returned"
    /\ UNCHANGED fnFrame

FnBms ==
    /\ pc = "functions"
    /\ \E v \in FnBuilderVehicles, s \in VehSines, z \in FnBmsSamples,
          cells \in FnCells :
         /\ call' = [op |-> "bms", v |-> v, s |-> s, z |-> z, cells |-> cells]
         /\ result' = generate_bms_data(v, 25 * MsPerSec, s, z, cells)
    /\ pc' = "returned"
    /\ UNCHANGED fnFrame

FnInverter ==
    /\ pc = "functions"
    /\ \E v \in FnBuilderVehicles, z1 \in FnControllerSamples,
          z2 \in FnMotorSamples, z3 \in FnErpmSamples, z4 \in FnDutySamples,
          z5 \in FnVoltageSamples :
         /\ call' = [op |-> "inverter", v |-> v, z |-> <<z1, z2, z3, z4, z5, 0, 0>>]
         /\ result' = generate_inverter_data(v, 25 * MsPerSec,
                                             <<z1, z2, z3, z4, z5, 0, 0>>)
    /\ pc' = "returned"
    /\ UNCHANGED fnFrame

InitFunctions ==
    /\ variant = "clean"
    /\ mission_profile = "city"
    /\ duration = NoDuration
    /\ packet_rate = 10
    /\ pc = "functions"
    /\ InitState

NextFunctions ==
    FnProfile \/ FnFaultCode \/ FnAdvance \/ FnApps \/ FnBms \/ FnInverter

SpecFunctions == InitFunctions /\ [][NextFunctions]_vars

---------------------------------------------------------------------------
(* Properties of the functions (SpecFunctions) *)

\* The fault rules in their priority order, for the inputs of a call.
FaultRules(c) ==
    << [hit |-> c.controller_temp > 90 * FP, code |-> "CONTROLLER_OVERTEMPERATURE"],
       [hit |-> c.motor_temp > 110 * FP, code |-> "MOTOR_OVERTEMPERATURE"],
       [hit |-> c.input_voltage < 60 * FP, code |-> "UNDERVOLTAGE"],
       [hit |-> c.input_voltage > 95 * FP, code |-> "OVERVOLTAGE"],
       [hit |-> c.motor_current > 160 * FP \/ c.motor_current < 0 - 160 * FP,
        code |-> "OVERCURRENT"] >>

\* The code of the first rule that matches, NO_FAULTS if none does.
FirstMatch(rules) ==
    LET hits == {k \in 1..Len(rules) : rules[k].hit}
    IN IF hits = {} THEN "NO_FAULTS"
       ELSE rules[CHOOSE k \in hits : \A j \in hits : k <= j].code

\* C11: the fault code is that of the first matching rule in the order
\* controller temperature > 90, motor temperature > 110, input voltage < 60,
\* input voltage > 95, |motor current| > 160, and NO_FAULTS if none matches;
\* controller 95, motor 50, voltage 80, current 50 gives the controller
\* overtemperature code.
C11_FaultPriority ==
    call.op = "fault_code" =>
        /\ result = FirstMatch(FaultRules(call))
        /\ (/\ call.controller_temp = 95 * FP
            /\ call.motor_temp = 50 * FP
            /\ call.input_voltage = 80 * FP
            /\ call.motor_current = 50 * FP) => result = "CONTROLLER_OVERTEMPERATURE"

C11_Witness ==
    /\ call.op = "fault_code"
    /\ call.controller_temp > 90 * FP
    /\ call.motor_temp > 110 * FP
    /\ call.input_voltage < 60 * FP
    /\ call.motor_current < 0 - 160 * FP
    /\ result = "CONTROLLER_OVERTEMPERATURE"

\* C12 (as claimed): the highway profile at elapsed 50 s returns the throttle
\* target 0.95 of the passing surge.
C12_SurgeAtFifty ==
    (call.op = "profile" /\ call.mp = "highway" /\ call.t = 50 * MsPerSec) =>
        result.throttle_target = (95 * FP) \div 100

\* C12 (amended): at elapsed 50 s the highway profile is not yet in the
\* passing surge and returns 0.75 + 0.05 * sine, within [0.70, 0.80]; at
\* every elapsed time after 50 s and before 70 s it returns 0.95.
C12_SurgeAfterFifty ==
    (call.op = "profile" /\ call.mp = "highway") =>
        /\ call.t = 50 * MsPerSec =>
             /\ (70 * FP) \div 100 <= result.throttle_target
             /\ result.throttle_target <= (80 * FP) \div 100
        /\ (50 * MsPerSec < call.t /\ call.t < 70 * MsPerSec) =>
             result.throttle_target = (95 * FP) \div 100

C12_Witness ==
    /\ call.op = "profile"
    /\ call.mp = "highway"
    /\ call.t = 50 * MsPerSec
    /\ call.s = 0 - FP
    /\ result.throttle_target = (70 * FP) \div 100

\* C13: whatever the profile name, the elapsed time and the value of the sine
\* term in [-1, 1], the throttle target returned is in [0, 1].
C13_TargetInRange ==
    call.op = "profile" =>
        /\ 0 <= result.throttle_target
        /\ result.throttle_target <= FP

C13_Witness ==
    /\ call.op = "profile"
    /\ call.mp = "efficiency_test"
    /\ call.s = 0 - FP
    /\ result.throttle_target = (5 * FP) \div 100

\* C14: with a mission profile name that is none of the five, an advance
\* leaves the vehicle as the same advance with the city profile does: the
\* throttle follows the city target, the base temperature is 30 and the
\* load coefficient of the controller temperature is 20.
C14_UnknownIsCity ==
    (call.op = "advance" /\ call.mp \notin ProfileNames) =>
        /\ result = generate_clean_data(call.v, "city", call.t, call.s, call.z)
        /\ result.throttle_position =
             Clamp01(call.v.throttle_position
                       + Trunc((city_throttle(call.t, call.s)
                                  - call.v.throttle_position) * 15, 100))
        /\ result.pack_temperature =
             30 * FP + Trunc(Abs(result.motor_current), 10) + Gauss(call.z[3], 2, 1)
        /\ result.controller_temp =
             30 * FP + Trunc(Abs(result.motor_current) * 20, 150)
               + Gauss(call.z[4], 2, 1)

C14_Witness ==
    /\ call.op = "advance"
    /\ call.mp = "unknown"
    /\ call.t = 80 * MsPerSec
    /\ call.v = InitVehicle
    /\ result.throttle_position > 0

\* C21: whatever the vehicle state and the noise, an APPS record has
\* current_motor_rpm >= 0, an inverter record erpm >= 0 and duty_cycle in
\* [0, 1], and a BMS record positive_current >= 0, negative_current >= 0 and
\* every cell voltage of every segment in [3.0, 4.3].
C21_RecordRanges ==
    /\ call.op = "apps" => result.data.current_motor_rpm >= 0
    /\ call.op = "inverter" =>
         /\ result.data.erpm >= 0
         /\ 0 <= result.data.duty_cycle /\ result.data.duty_cycle <= FP
    /\ call.op = "bms" =>
         /\ result.data.positive_current >= 0
         /\ result.data.negative_current >= 0
         /\ Len(result.data.segments) = 5
         /\ \A k \in 1..Len(result.data.segments) :
              /\ Len(result.data.segments[k].cell_voltages) = 12
              /\ \A i \in 1..Len(result.data.segments[k].cell_voltages) :
                   /\ 3 * FP <= result.data.segments[k].cell_voltages[i]
                   /\ result.data.segments[k].cell_voltages[i] <= (43 * FP) \div 10

C21_Witness ==
    /\ call.op = "bms"
    /\ call.v.motor_current < 0
    /\ result.data.positive_current = 0
    /\ result.data.segments[1].cell_voltages[1] = 3 * FP
    /\ result.data.segments[5].cell_voltages[12] > 4 * FP

\* C24: in an inverter record the controller overtemperature code comes
\* with the capacitor and IGBT temperature flags, the motor overtemperature
\* code with the two motor temperature flags, an under- or overvoltage code
\* with the input voltage flag, the overcurrent code with the DC current
\* flag; and drive_enabled is true exactly when the code is NO_FAULTS.
C24_FaultFlagsConsistent ==
    call.op = "inverter" =>
        LET d == result.data
            l == result.data.limit_states
        IN /\ d.fault_code = "CONTROLLER_OVERTEMPERATURE" =>
                (l.capacitor_temperature /\ l.igbt_temperature_limit)
           /\ d.fault_code = "MOTOR_OVERTEMPERATURE" =>
                (l.motor_temperature_limit /\ l.motor_acceleration_temperature_limit)
           /\ d.fault_code \in {"UNDERVOLTAGE", "OVERVOLTAGE"} => l.input_voltage_limit
           /\ d.fault_code = "OVERCURRENT" => l.dc_current_limit
           /\ d.drive_enabled <=> (d.fault_code = "NO_FAULTS")

C24_Witness ==
    /\ call.op = "inverter"
    /\ result.data.fault_code = "OVERCURRENT"
    /\ result.data.limit_states.dc_current_limit
    /\ ~result.data.limit_states.input_voltage_limit
    /\ ~result.data.drive_enabled

---------------------------------------------------------------------------
(* Specification of the 2 s run at 10 Hz: no write fails, no interrupt, and *)
(* consecutive reads of the clock are 1 or 2 ms apart.                      *)

C9Steps == {1, 2}

InitC9 ==
    /\ variant \in Variants
    /\ mission_profile = (IF variant = "clean" THEN "idle" ELSE "city")
    /\ duration = 2 * MsPerSec
    /\ packet_rate = 10
    /\ pc = "start"
    /\ InitState

NextC9 ==
    \/ Connect
    \/ EnterLoop
    \/ DurationBreak
    \/ TimeToSend
    \/ NotDue
    \/ Build({0}, {0})
    \/ SendOk
    \/ Sleep(C9Steps, 3 * MsPerSec)
    \/ Finally

SpecC9 == InitC9 /\ [][NextC9]_vars

\* C9: the run emits 20 packets within +/-1: never more than 21, and not
\* fewer than 19 when the duration ends it.
C9_TwentyPackets ==
    /\ packet_count <= 21
    /\ (pc = "exited" /\ cause = "duration") => packet_count >= 19

C9_Witness ==
    /\ pc = "exited"
    /\ cause = "duration"
    /\ packet_count \in 19..21
    /\ close_count = 1
============================================================================
